---- MODULE Spec2Model ----
(***************************************************************************)
(* Model of the link-graph traversal and export engine of                  *)
(* ObsidianRecursiveNotes: the Export Graph Walker (read_files_recursive,   *)
(* find_markdown_links, find_image_links, copy_file_to_export), the         *)
(* Expectation Counter (count_expected_links) and the session driver        *)
(* (run_export / main), over small vaults of linked documents.              *)
(*                                                                         *)
(* Text is modelled at token level: a link's text is a sequence of tokens   *)
(* (names, ".md", "#", "|", "/", ".."), a path is a directory (sequence of  *)
(* components) plus a file name (sequence of tokens).                       *)
(***************************************************************************)
EXTENDS Integers, Sequences, FiniteSets, TLC

(***************************************************************************)
(* Bounds of the model.                                                    *)
(***************************************************************************)
\* links in a generated vault (all its documents together)
MaxLinks == 2
\* largest bounded depth budget a session is started with
MaxDepth == 2
\* nested read_files_recursive calls before the interpreter's recursion
\* limit ends the run with RecursionError
MaxStack == 7

(***************************************************************************)
(* Generic helpers.                                                        *)
(***************************************************************************)
Range(s) == {s[i] : i \in 1..Len(s)}

IsPrefix(s, t) == Len(s) <= Len(t) /\ SubSeq(t, 1, Len(s)) = s

RECURSIVE Flatten(_)
Flatten(ss) == IF ss = <<>> THEN <<>> ELSE Head(ss) \o Flatten(Tail(ss))

\* the optional depth budget: None is <<>>, a bounded budget n is <<n>>
None == <<>>
Some(n) == <<n>>
IsNone(d) == d = <<>>
Val(d) == d[1]

(***************************************************************************)
(* str.split(sep)[0] and the path pieces, on token sequences.              *)
(***************************************************************************)
\* s.split(sep)[0]: the tokens before the first sep
RECURSIVE SplitFirst(_, _)
SplitFirst(s, sep) ==
    IF s = <<>> \/ Head(s) = sep THEN <<>>
    ELSE <<Head(s)>> \o SplitFirst(Tail(s), sep)

\* s.split(sep): the pieces between the separators
RECURSIVE SplitAll(_, _)
SplitAll(s, sep) ==
    LET first == SplitFirst(s, sep)
    IN  IF Len(first) = Len(s) THEN <<first>>
        ELSE <<first>> \o SplitAll(SubSeq(s, Len(first) + 2, Len(s)), sep)

\* s.endswith('.md')
EndsWithMd(s) == s # <<>> /\ s[Len(s)] = ".md"

(***************************************************************************)
(* Paths.  A path is [dir, name, raw]: raw marks a spelling that            *)
(* os.path.normpath would change (such as /v/./root.md).                    *)
(***************************************************************************)
Path(dir, name) == [dir |-> dir, name |-> name, raw |-> FALSE]

Raw(p) == [p EXCEPT !.raw = TRUE]

\* os.path.normpath
normpath(p) == [p EXCEPT !.raw = FALSE]

\* path_utils.ensure_str_path: str(path) of a path that is a str already
ensure_str_path(p) == p

\* os.path.dirname(os.path.abspath(current_file))
dirname(p) == p.dir

\* os.path.basename
basename(p) == p.name

\* os.path.normpath(os.path.join(base, filename)): ".." climbs one directory
RECURSIVE NormJoinDir(_, _)
NormJoinDir(dir, comps) ==
    IF comps = <<>> THEN dir
    ELSE IF Head(comps) = <<"..">>
         THEN NormJoinDir(IF dir # <<>> /\ dir[Len(dir)] # <<"..">>
                          THEN SubSeq(dir, 1, Len(dir) - 1)
                          ELSE Append(dir, <<"..">>),
                          Tail(comps))
         ELSE NormJoinDir(Append(dir, Head(comps)), Tail(comps))

NormJoin(base, filename) ==
    LET comps == SplitAll(filename, "/")
    IN  Path(NormJoinDir(base, SubSeq(comps, 1, Len(comps) - 1)),
             comps[Len(comps)])

(***************************************************************************)
(* Link syntax.  A line is a sequence of double-bracketed links; bang says  *)
(* the link is written ![[...]], text is what stands between the brackets.  *)
(***************************************************************************)
DocLink(text) == [bang |-> FALSE, text |-> text]
ImgLink(text) == [bang |-> TRUE, text |-> text]

\* re.findall(r"(?<!!)\[\[([^\]]*)\]\]", line): the links not preceded by "!"
MdMatches(line) == SelectSeq(line, LAMBDA l : ~l.bang)

\* re.findall(r"!\[\[([^\]]*)\]\]", line): the links preceded by "!"
ImgMatches(line) == SelectSeq(line, LAMBDA l : l.bang)

\* file_link.split("#")[0], the alias kept
FileOnlyKeepsAlias(text) == SplitFirst(text, "#")

\* file_link.split("#")[0].split("|")[0]
FileOnly(text) == SplitFirst(SplitFirst(text, "#"), "|")

\* find_markdown_links / count_expected_links: append .md when it is missing
AddMdUnguarded(file_only) ==
    IF ~EndsWithMd(file_only) THEN Append(file_only, ".md") ELSE file_only

AddMd(file_only) ==
    IF ~EndsWithMd(file_only) /\ file_only # <<>>
    THEN Append(file_only, ".md") ELSE file_only

(***************************************************************************)
(* The file resolver.                                                       *)
(***************************************************************************)
NoPath == Path(<<>>, <<>>)

Found(p) == p # NoPath

\* path_utils.find_file_in_directory, and the same search written out in
\* copy_file_to_export of src/file_operations.py: the sibling (joined) path
\* first, then the first file of the subtree whose name equals filename
find_file_in_directory(files, filename, base_directory) ==
    LET potential_path == NormJoin(base_directory, filename)
        walk == {f \in files : IsPrefix(base_directory, f.dir) /\ f.name = filename}
    IN  IF potential_path \in files THEN potential_path
        ELSE IF walk # {}
             THEN CHOOSE f \in walk : \A g \in walk : Len(f.dir) <= Len(g.dir)
             ELSE NoPath

(***************************************************************************)
(* Vaults: the files of a directory tree and the lines of its documents.    *)
(* A vault is [root, files, text]; text maps a document to its lines.       *)
(***************************************************************************)
VaultDir == <<>>

Md(name) == Path(VaultDir, <<name, ".md">>)

ContentOf(v, p) == IF p \in DOMAIN v.text THEN v.text[p] ELSE <<>>

\* the linked document an I/O fault is injected on
FaultyFile == Md("a")

\* the vault of tests/test_file_counting.py (create_test_files)
CountingTestVault ==
    LET sub == Path(<<(<<"subfolder">>)>>, <<"subnote1", ".md">>)
        png == Path(VaultDir, <<"test_image", ".png">>)
        jpg == Path(<<(<<"images">>)>>, <<"test_image2", ".jpg">>)
    IN  [root  |-> Md("main"),
         files |-> {Md("main"), Md("note1"), Md("note2"), Md("note3"),
                    Md("note4"), Md("note5"), sub, png, jpg},
         text  |->
            (Md("main") :> << <<DocLink(<<"note1">>)>>,
                              <<DocLink(<<"note2", ".md">>)>>,
                              <<DocLink(<<"note3", "#", "section">>)>>,
                              <<DocLink(<<"note4", "|", "Alias for Note 4">>)>>,
                              <<DocLink(<<"subfolder", "/", "subnote1">>)>>,
                              <<ImgLink(<<"test_image", ".png">>)>>,
                              <<ImgLink(<<"images", "/", "test_image2", ".jpg">>)>> >>)
            @@ (Md("note1") :> << <<DocLink(<<"main">>)>>, <<DocLink(<<"note5">>)>> >>)
            @@ (Md("note2") :> <<>>)
            @@ (Md("note3") :> << <<DocLink(<<"note2">>),
                                    ImgLink(<<"test_image", ".png">>)>> >>)
            @@ (Md("note4") :> << <<DocLink(<<"#", "section">>)>> >>)
            @@ (Md("note5") :> << <<DocLink(<<"non-existent-file">>)>> >>)
            @@ (sub :> << <<DocLink(<<"..", "/", "note1">>)>> >>)]

\* the vault of test_exportMdFileToHtml.py (setUp); circular is the variant
\* test_circular_references writes, where linked2.md links back to main.md
ExportTestVault(circular) ==
    [root  |-> Md("main"),
     files |-> {Md("main"), Md("linked1"), Md("linked2")},
     text  |->
        (Md("main") :> << <<DocLink(<<"linked1", ".md">>)>>,
                          <<DocLink(<<"linked2", ".md">>)>> >>)
        @@ (Md("linked1") :> << <<DocLink(<<"linked2", ".md">>)>> >>)
        @@ (Md("linked2") :> IF circular
                             THEN << <<DocLink(<<"main", ".md">>)>> >>
                             ELSE <<>>)]

\* a document x.md that the root links directly and also through the chain
\* p.md, q.md, where q.md links an image after x.md
ShortcutVault ==
    [root  |-> Md("root"),
     files |-> {Md("root"), Md("p"), Md("q"), Md("x"), Md("y"),
                Path(VaultDir, <<"img", ".png">>)},
     text  |->
        (Md("root") :> << <<DocLink(<<"p">>)>>, <<DocLink(<<"x">>)>> >>)
        @@ (Md("p") :> << <<DocLink(<<"q">>)>> >>)
        @@ (Md("q") :> << <<DocLink(<<"x">>), ImgLink(<<"img", ".png">>)>> >>)
        @@ (Md("x") :> << <<DocLink(<<"y">>)>> >>)
        @@ (Md("y") :> <<>>)]

\* a document a.md that the root embeds with an image link, then links after
\* another image
EmbedVault ==
    [root  |-> Md("root"),
     files |-> {Md("root"), Md("a"), Md("b"), Path(VaultDir, <<"img", ".png">>)},
     text  |->
        (Md("root") :> << <<ImgLink(<<"a", ".md">>)>>, <<ImgLink(<<"img", ".png">>)>>,
                          <<DocLink(<<"a">>)>> >>)
        @@ (Md("a") :> << <<DocLink(<<"b">>)>> >>)
        @@ (Md("b") :> <<>>)]

\* a page with links to its own sections, to a missing document and to a.md
\* in the four spellings of a document link
HtmlVault ==
    [root  |-> Md("page"),
     files |-> {Md("page"), Md("a"), Md("b")},
     text  |->
        (Md("page") :> << <<DocLink(<<"#", "section">>)>>,
                          <<DocLink(<<"#", "my", " ", "(", "section", ")">>)>>,
                          <<DocLink(<<"ghost", "#", "frag">>)>>,
                          <<DocLink(<<"a", "|", "alias">>), DocLink(<<"a", ".md">>)>>,
                          <<DocLink(<<"a", "#", "sec">>), DocLink(<<"a">>)>> >>)
        @@ (Md("a") :> << <<DocLink(<<"b", "|", "alias">>)>> >>)
        @@ (Md("b") :> <<>>)]

\* a root with a link to its own section and two links without a target
MalformedVault ==
    [root  |-> Md("root"),
     files |-> {Md("root"), Md("a")},
     text  |->
        (Md("root") :> << <<DocLink(<<"#", "anchor">>)>>,
                          <<DocLink(<<>>)>>,
                          <<DocLink(<<"|", "alias">>)>>,
                          <<DocLink(<<"a">>)>> >>)
        @@ (Md("a") :> << <<DocLink(<<"|", "alias">>), DocLink(<<>>)>> >>)]

\* the links a generated document is written with
LinkAlphabet ==
    {DocLink(<<"root">>), DocLink(<<"a">>), DocLink(<<"b">>), DocLink(<<"ghost">>),
     ImgLink(<<"img", ".png">>), ImgLink(<<"a", ".md">>)}

LinkSeqs(n) == UNION {[1..k -> LinkAlphabet] : k \in 0..n}

\* the lines of a document whose links are s, a line ending after each
\* position of breaks
RECURSIVE LinesOf(_, _)
LinesOf(s, breaks) ==
    IF s = <<>> THEN <<>>
    ELSE LET ends == {i \in breaks : i < Len(s)} \cup {Len(s)}
             e == CHOOSE i \in ends : \A j \in ends : i <= j
         IN  <<SubSeq(s, 1, e)>>
             \o LinesOf(SubSeq(s, e + 1, Len(s)), {i - e : i \in breaks \ (1..e)})

NLinks(content) == Len(Flatten(content))

GenContents(n) ==
    UNION {{LinesOf(s, breaks) : breaks \in SUBSET (1..(Len(s) - 1))} : s \in LinkSeqs(n)}

GenVault(croot, ca, cb) ==
    [root  |-> Md("root"),
     files |-> {Md("root"), Md("a"), Md("b"), Path(VaultDir, <<"img", ".png">>)},
     text  |-> (Md("root") :> croot) @@ (Md("a") :> ca) @@ (Md("b") :> cb)]

\* every vault of root.md, a.md, b.md and img.png with at most MaxLinks links
GenVaults ==
    UNION {UNION {{GenVault(croot, ca, cb) :
                      cb \in GenContents(MaxLinks - NLinks(croot) - NLinks(ca))} :
                  ca \in GenContents(MaxLinks - NLinks(croot))} :
           croot \in GenContents(MaxLinks)}

Vaults ==
    GenVaults \cup {CountingTestVault, ExportTestVault(FALSE), ExportTestVault(TRUE),
                    ShortcutVault, EmbedVault, HtmlVault, MalformedVault}

\* the depth budgets a session is started with
Budgets == {None} \cup {Some(n) : n \in -1..MaxDepth}

\* how the caller seeds files_already_copied: with the root as resolved
\* ("norm"), with a root spelling normpath would change ("raw"), or not at
\* all ("none", read_files_recursive's default)
Seeds == {"norm", "raw", "none"}

(***************************************************************************)
(* State of one export session.                                             *)
(***************************************************************************)
VARIABLES
    vault,      \* the directory tree the session runs on
    budget,     \* max_depth of the session
    seed,       \* how files_already_copied was seeded
    phase,      \* "start", "count", "counted", "walk", "done", "reported",
                \* "tested" (a direct call returned), "aborted" (root not
                \* found), "crashed" (RecursionError), "failed" (I/O error);
                \* "render", "rendered" while one document is rendered,
                \* "plain", "compared" while it is walked without HTML
    run,        \* 1: the session; 2: a second session with budget + 1
    cstack,     \* call stack of count_expected_links
    visited,    \* count_expected_links' visited set
    expected,   \* expected_count of run_export
    registry,   \* files_already_copied
    stack,      \* call stack of read_files_recursive
    notes,      \* names of the files in <export_dir>/notes
    copies,     \* the shutil.copyfile calls so far, sources in order
    reads,      \* the read_files_recursive calls that read a file, in order
    warnings,   \* "Could not find linked file" warnings, in order
    last,       \* what the walker's last link step did
    registry1,  \* the registry the first session ended with
    export_to_html, \* the session renders HTML (main's default)
    io_fault,   \* how FaultyFile fails: "none", "copy" (shutil.copyfile
                \* raises) or "open" (reading it raises)
    root_exists, \* os.path.exists(file_path) as resolve_path sees it
    export_dir, \* "absent", or "created" by create_export_dir / os.makedirs
    result,     \* what run_export returned: "none" (not yet), "True", "False"
    message,    \* the last line of run_export's completion message
    htmls,      \* the documents an .html file was written for
    rendered,   \* what the HTML of the root shows for its document links
    data,       \* process_file_to_html: the lines of the document rendered
    lineno,     \* number of lines of data rendered so far
    in_code_block,  \* process_file_to_html's in_code_block
    in_comment,     \* process_file_to_html's in_comment
    output,     \* per line of data, whether it was written and as what
    inside      \* per line of data, in_code_block once convert_code_block
                \* has seen the line

vars == <<vault, budget, seed, phase, run, cstack, visited, expected, registry,
          stack, notes, copies, reads, warnings, last, registry1,
          export_to_html, io_fault, root_exists, export_dir, result, message,
          htmls, rendered, data, lineno, in_code_block, in_comment, output,
          inside>>

inputVars == <<export_to_html, io_fault, root_exists>>
driverVars == <<export_dir, result, message>>
htmlVars == <<htmls, rendered>>
renderVars == <<data, lineno, in_code_block, in_comment, output, inside>>

\* no document is being rendered line by line
NoRender ==
    /\ data = <<>>
    /\ lineno = 0
    /\ in_code_block = FALSE
    /\ in_comment = FALSE
    /\ output = <<>>
    /\ inside = <<>>

counterVars == <<cstack, visited, expected>>
walkerVars == <<registry, stack, notes, copies, reads, warnings, last>>

NoStep == [kind |-> "none", line |-> 0, target |-> NoPath, known |-> FALSE,
           recursed |-> FALSE]

\* file_to_export as the caller holds it
RootArg == IF seed = "raw" THEN Raw(vault.root) ELSE vault.root

Init ==
    /\ vault \in Vaults
    /\ budget \in Budgets
    /\ seed \in Seeds
    /\ phase = "start"
    /\ run = 1
    /\ cstack = <<>>
    /\ visited = {}
    /\ expected = 0
    /\ registry = <<>>
    /\ stack = <<>>
    /\ notes = {}
    /\ copies = <<>>
    /\ reads = <<>>
    /\ warnings = <<>>
    /\ last = NoStep
    /\ registry1 = <<>>
    /\ export_to_html \in BOOLEAN
    /\ io_fault \in {"none", "copy", "open"}
    /\ root_exists \in BOOLEAN
    \* one thing is varied at a time: HTML, a fault and a missing root are
    \* met in sessions seeded as main does
    /\ (export_to_html \/ io_fault # "none" \/ ~root_exists) => seed = "norm"
    /\ export_to_html => (io_fault = "none" /\ root_exists)
    /\ io_fault # "none" => (root_exists /\ FaultyFile \in vault.files \ {vault.root})
    /\ ~root_exists => IsNone(budget)
    /\ export_dir = "absent"
    /\ result = "none"
    /\ message = "none"
    /\ htmls = {}
    /\ rendered = <<>>
    /\ NoRender

(***************************************************************************)
(* I/O faults and the resolution of the root.                               *)
(***************************************************************************)
\* shutil.copyfile(path, dest_file) raises (the source is a directory, or may
\* not be read)
CopyFails(path) == io_fault = "copy" /\ normpath(path) = FaultyFile

\* open(path).readlines() raises (the file is not UTF-8 text), and so does
\* whatever makes the copy fail
OpenFails(path) == io_fault \in {"copy", "open"} /\ normpath(path) = FaultyFile

\* path_utils.resolve_path: (resolved_path, error_message)
resolve_pathNeverFails(file_path, exists) ==
    [path |-> file_path, error |-> FALSE]

resolve_path(file_path, exists) ==
    IF exists THEN [path |-> file_path, error |-> FALSE]
    ELSE [path |-> NoPath, error |-> TRUE]

(***************************************************************************)
(* The Expectation Counter: count_expected_links.                           *)
(***************************************************************************)
\* the counter stops reading at current_depth >= max_depth
CounterAtMaxDepth(current_depth, max_depth) ==
    ~IsNone(max_depth) /\ current_depth >= Val(max_depth)

\* md_link_pattern.findall(content), then img_link_pattern.findall(content)
CounterOps(content) ==
    MdMatches(Flatten(content)) \o ImgMatches(Flatten(content))

\* the frame of a call count_expected_links(file_path, visited, current_depth,
\* max_depth) on a file that is not in visited: count starts at 1
CounterFrameUncounted(file_path, current_depth, max_depth) ==
    [path  |-> normpath(ensure_str_path(file_path)),
     depth |-> current_depth,
     count |-> 0,
     ops   |-> IF CounterAtMaxDepth(current_depth, max_depth)
                  \/ OpenFails(file_path)
               THEN <<>>
               ELSE CounterOps(ContentOf(vault, normpath(file_path))),
     pc    |-> 1]

CounterFrame(file_path, current_depth, max_depth) ==
    [path  |-> normpath(ensure_str_path(file_path)),
     depth |-> current_depth,
     count |-> 1,
     ops   |-> IF CounterAtMaxDepth(current_depth, max_depth)
                  \/ OpenFails(file_path)   \* "except Exception": reported
               THEN <<>>
               ELSE CounterOps(ContentOf(vault, normpath(file_path))),
     pc    |-> 1]

CTop == cstack[Len(cstack)]

\* "if file_found and linked_file_path not in visited"
CounterFreshIgnoresVisited(linked_file_path) == Found(linked_file_path)

CounterFresh(linked_file_path) ==
    Found(linked_file_path) /\ linked_file_path \notin visited

CSetTop(f) == [cstack EXCEPT ![Len(cstack)] = f]

\* run_export calls count_expected_links(file_to_export, max_depth=max_depth)
CountStart ==
    /\ UNCHANGED renderVars
    /\ phase = "start"
    /\ ~resolve_path(RootArg, root_exists).error
    /\ phase' = "count"
    /\ visited' = {normpath(RootArg)}
    /\ cstack' = <<CounterFrame(RootArg, 0, budget)>>
    /\ UNCHANGED <<vault, budget, seed, run, expected, registry1>>
    /\ UNCHANGED walkerVars
    /\ UNCHANGED <<inputVars, driverVars, htmlVars>>

\* one iteration of "for match in md_matches"
CountMd ==
    /\ UNCHANGED renderVars
    /\ phase = "count"
    /\ CTop.pc <= Len(CTop.ops)
    /\ ~CTop.ops[CTop.pc].bang
    /\ LET f == CTop
           file_only == AddMd(FileOnly(f.ops[f.pc].text))
           linked_file_path ==
               find_file_in_directory(vault.files, file_only, dirname(f.path))
           next == [f EXCEPT !.pc = f.pc + 1]
       IN  IF file_only # <<>> /\ CounterFresh(linked_file_path)
           THEN /\ visited' = visited \cup {linked_file_path}
                /\ cstack' = Append(CSetTop(next),
                                    CounterFrame(linked_file_path, f.depth + 1, budget))
           ELSE /\ visited' = visited
                /\ cstack' = CSetTop(next)
    /\ UNCHANGED <<vault, budget, seed, phase, run, expected, registry1>>
    /\ UNCHANGED walkerVars
    /\ UNCHANGED <<inputVars, driverVars, htmlVars>>

\* one iteration of "for match in img_matches"
CountImg ==
    /\ UNCHANGED renderVars
    /\ phase = "count"
    /\ CTop.pc <= Len(CTop.ops)
    /\ CTop.ops[CTop.pc].bang
    /\ LET f == CTop
           file_only == FileOnly(f.ops[f.pc].text)
           linked_file_path ==
               find_file_in_directory(vault.files, file_only, dirname(f.path))
           fresh == file_only # <<>> /\ CounterFresh(linked_file_path)
       IN  /\ visited' = IF fresh THEN visited \cup {linked_file_path} ELSE visited
           /\ cstack' = CSetTop([f EXCEPT !.pc = f.pc + 1,
                                          !.count = IF fresh THEN f.count + 1
                                                    ELSE f.count])
    /\ UNCHANGED <<vault, budget, seed, phase, run, expected, registry1>>
    /\ UNCHANGED walkerVars
    /\ UNCHANGED <<inputVars, driverVars, htmlVars>>

\* "return count, visited": the caller adds sub_count to its count
CountReturn ==
    /\ UNCHANGED renderVars
    /\ phase = "count"
    /\ CTop.pc > Len(CTop.ops)
    /\ IF Len(cstack) = 1
       THEN /\ expected' = CTop.count
            /\ cstack' = <<>>
            /\ phase' = "counted"
       ELSE /\ expected' = expected
            /\ cstack' = [SubSeq(cstack, 1, Len(cstack) - 1)
                            EXCEPT ![Len(cstack) - 1].count = @ + CTop.count]
            /\ phase' = phase
    /\ UNCHANGED <<vault, budget, seed, run, visited, registry1>>
    /\ UNCHANGED walkerVars
    /\ UNCHANGED <<inputVars, driverVars, htmlVars>>

\* count_expected_links alone, as run_export and the counting tests call it
CountNext == CountStart \/ CountMd \/ CountImg \/ CountReturn

\* run_export is about to call count_expected_links, or the call is running:
\* the states in which a step of CountNext is possible
CounterRunning ==
    \/ phase = "start" /\ ~resolve_path(RootArg, root_exists).error
    \/ phase = "count"

\* Python runs a call to its end: a count that can take a step takes one
\* (weak fairness of CountNext, with ENABLED <<CountNext>>_vars written as
\* the state predicate CounterRunning)
CountFairness == []<>(~CounterRunning) \/ []<><<CountNext>>_vars

CountSpec == Init /\ [][CountNext]_vars /\ CountFairness

(***************************************************************************)
(* The Export Graph Walker: read_files_recursive, find_markdown_links,      *)
(* find_image_links and copy_file_to_export.                                *)
(***************************************************************************)
\* the check left out: no budget is negative
NegativeBudgetNever(max_depth) == FALSE

\* "if max_depth is not None and max_depth < 0: return"
NegativeBudget(max_depth) == ~IsNone(max_depth) /\ Val(max_depth) < 0

\* find_markdown_links: "if max_depth is not None and max_depth <= 0: return line"
LinksSkipped(max_depth) == ~IsNone(max_depth) /\ Val(max_depth) <= 0

\* find_markdown_links: "should_traverse = max_depth is None or max_depth > 1"
ShouldTraverseOffByOne(max_depth) == IsNone(max_depth) \/ Val(max_depth) >= 1

ShouldTraverse(max_depth) == IsNone(max_depth) \/ Val(max_depth) > 1

\* copy_file_to_export: "next_depth = None if max_depth is None else max_depth - 1"
NextDepthKept(max_depth) == max_depth

NextDepth(max_depth) == IF IsNone(max_depth) THEN None ELSE Some(Val(max_depth) - 1)

\* copy_file_to_export: "if linked_file_path not in files_already_copied: append"
RegistryAfterCopyInsertsFirst(linked_file_path, files_already_copied) ==
    IF linked_file_path \notin Range(files_already_copied)
    THEN <<ensure_str_path(linked_file_path)>> \o files_already_copied
    ELSE files_already_copied

RegistryAfterCopy(linked_file_path, files_already_copied) ==
    IF linked_file_path \notin Range(files_already_copied)
    THEN Append(files_already_copied, ensure_str_path(linked_file_path))
    ELSE files_already_copied

\* copy_file_to_export: linked_file_path not in [os.path.normpath(f) for i, f in
\* enumerate(files_already_copied) if i < len(files_already_copied) - 1]
NotAlreadyTraversed(linked_file_path, files_already_copied) ==
    linked_file_path \notin
        {normpath(files_already_copied[i]) : i \in 1..(Len(files_already_copied) - 1)}

\* copy_file_to_export: does it call read_files_recursive on the file it copied
Recurses(linked_file_path, files_already_copied, traverse, max_depth) ==
    /\ traverse
    /\ NotAlreadyTraversed(linked_file_path, files_already_copied)
    /\ (IsNone(NextDepth(max_depth)) \/ Val(NextDepth(max_depth)) >= 0)

\* the links read_files_recursive meets, in order: for each line the document
\* links (none when find_markdown_links returns early), then the image links
LineOps(content, i, max_depth) ==
    LET tag(l) == [line |-> i, bang |-> l.bang, text |-> l.text]
        md  == IF LinksSkipped(max_depth) THEN <<>> ELSE MdMatches(content[i])
        img == ImgMatches(content[i])
    IN  [k \in 1..(Len(md) + Len(img)) |->
            IF k <= Len(md) THEN tag(md[k]) ELSE tag(img[k - Len(md)])]

WalkerOps(content, max_depth) ==
    Flatten([i \in 1..Len(content) |-> LineOps(content, i, max_depth)])

\* "#" + file_link.split("#")[1].replace(" ", "_").replace("(", "").replace(")", "")
Slug(tokens) ==
    LET kept == SelectSeq(tokens, LAMBDA t : t \notin {"(", ")"})
    IN  [i \in 1..Len(kept) |-> IF kept[i] = " " THEN "_" ELSE kept[i]]

\* find_markdown_links: anchor
AnchorOf(file_link) ==
    LET parts == SplitAll(file_link, "#")
    IN  IF Len(parts) > 1 THEN <<"#">> \o Slug(parts[2]) ELSE <<>>

\* name.replace(".md", "")
RemoveMd(name) == SelectSeq(name, LAMBDA t : t # ".md")

\* name.replace("\\", "/").split("/")[-1]
LastComponent(name) == SplitAll(name, "/")[Len(SplitAll(name, "/"))]

\* a link the HTML shows unchanged, as [[...]]
NoAnchor == [href |-> <<>>, label |-> <<>>]

\* find_markdown_links: html_link, the <a href="./...">label</a> that replaces
\* the link; new_file is <<>> for None ("Self-reference or file not found")
HtmlLink(new_file, file_only, anchor) ==
    IF new_file # <<>>
    THEN [href  |-> new_file \o <<".html">> \o anchor,
          label |-> RemoveMd(LastComponent(new_file)) \o anchor]
    ELSE [href  |-> file_only \o <<".md", ".html">> \o anchor,
          label |-> RemoveMd(LastComponent(file_only)) \o anchor]

\* process_file_to_html at a budget where find_markdown_links returns the
\* line as it is: every document link stays as written
SkippedRender(content, max_depth) ==
    IF LinksSkipped(max_depth)
    THEN LET md == MdMatches(Flatten(content))
         IN  [i \in 1..Len(md) |-> [text |-> md[i].text, out |-> NoAnchor]]
    ELSE <<>>

\* the frame of read_files_recursive(path, max_depth, export_to_html) once it
\* has read the file
ReadFrame(path, max_depth, html) ==
    [path  |-> path,
     depth |-> max_depth,
     html  |-> html,
     fn    |-> "read_files_recursive",
     ops   |-> WalkerOps(ContentOf(vault, normpath(path)), max_depth),
     pc    |-> 1]

TopFrame == stack[Len(stack)]

Advanced == [stack EXCEPT ![Len(stack)].pc = @ + 1]

\* how a call read_files_recursive(path, max_depth) made below the frames stk
\* goes: a negative budget returns at once, a call beyond the recursion limit
\* raises RecursionError, a file that cannot be read raises, else the file is
\* copied and read
ReadOutcome(path, max_depth, stk) ==
    IF NegativeBudget(max_depth) THEN "return"
    ELSE IF Len(stk) >= MaxStack THEN "RecursionError"
    ELSE IF OpenFails(path) THEN "IOError"
    ELSE "read"

\* read_files_recursive(path, max_depth, export_to_html) called with the link
\* step done and the walker state (reg, nts, cps, rnd) it left
CallRead(path, max_depth, html, stk, reg, nts, cps, rnd) ==
    LET outcome == ReadOutcome(path, max_depth, stk)
    IN  /\ stack' = IF outcome = "read"
                    THEN Append(stk, ReadFrame(path, max_depth, html)) ELSE stk
        \* shutil.copyfile(path, dest_file) comes before the open
        /\ notes' = IF outcome \in {"read", "IOError"} /\ ~CopyFails(path)
                    THEN nts \cup {basename(path)} ELSE nts
        /\ copies' = IF outcome \in {"read", "IOError"} /\ ~CopyFails(path)
                     THEN Append(cps, normpath(path)) ELSE cps
        /\ reads' = IF outcome = "read"
                    THEN Append(reads, [path |-> normpath(path), depth |-> max_depth])
                    ELSE reads
        /\ htmls' = IF outcome = "read" /\ html
                    THEN htmls \cup {normpath(path)} ELSE htmls
        /\ rendered' = IF outcome = "read" /\ html
                       THEN rnd \o SkippedRender(ContentOf(vault, normpath(path)),
                                                 max_depth)
                       ELSE rnd
        /\ phase' = CASE outcome = "read" -> "walk"
                      [] outcome = "return" -> IF stk = <<>> THEN "done" ELSE "walk"
                      [] outcome = "RecursionError" -> "crashed"
                      [] outcome = "IOError" -> "failed"

\* the registry the caller passes: run_export and main seed it with the root
SeedRegistry ==
    IF seed = "none" THEN <<>> ELSE <<ensure_str_path(RootArg)>>

\* run_export / main: resolve_path reports an error for the root; run_export
\* shows it and returns False, main prints it and exits
ResolveFails ==
    /\ UNCHANGED renderVars
    /\ phase = "start"
    /\ resolve_path(RootArg, root_exists).error
    /\ phase' = "aborted"
    /\ result' = "False"
    /\ UNCHANGED <<vault, budget, seed, run, registry1, export_dir, message>>
    /\ UNCHANGED <<inputVars, htmlVars>>
    /\ UNCHANGED counterVars
    /\ UNCHANGED walkerVars

\* run_export / main: create the export directory, copy the main file, seed
\* the registry, call read_files_recursive(file_to_export, max_depth); seed
\* "none" is a direct call of read_files_recursive without a registry, whose
\* os.makedirs creates the directory
WalkStart ==
    /\ UNCHANGED renderVars
    /\ phase = "counted"
    /\ registry' = SeedRegistry
    /\ warnings' = <<>>
    /\ last' = NoStep
    /\ export_dir' = IF seed # "none" \/ ReadOutcome(RootArg, budget, <<>>) # "return"
                     THEN "created" ELSE export_dir
    /\ CallRead(RootArg, budget, export_to_html, <<>>, SeedRegistry,
                IF seed = "none" THEN {} ELSE {basename(RootArg)},
                IF seed = "none" THEN <<>> ELSE <<normpath(RootArg)>>,
                <<>>)
    /\ UNCHANGED <<vault, budget, seed, run, registry1, result, message>>
    /\ UNCHANGED inputVars
    /\ UNCHANGED counterVars

\* copy_file_to_export's else branch: print the warning and return None; the
\* caller's loop goes on with the next link
WarnNotFoundRaises(file_to_find) ==
    /\ warnings' = Append(warnings, file_to_find)
    /\ phase' = "crashed"
    /\ UNCHANGED <<registry, stack, notes, copies, reads>>

WarnNotFound(file_to_find) ==
    /\ warnings' = Append(warnings, file_to_find)
    /\ stack' = Advanced
    /\ UNCHANGED <<registry, notes, copies, reads, phase>>

\* copy_file_to_export: read_files_recursive(..., export_to_html=False, ...)
RecursionExportToHtmlInherited == TRUE

RecursionExportToHtml == FALSE

\* what copy_file_to_export returns: os.path.basename(linked_file_path), or
\* None (<<>>)
NewFile(file_to_find, current_file, max_depth) ==
    LET linked_file_path ==
            find_file_in_directory(vault.files, file_to_find,
                                   dirname(normpath(current_file)))
    IN  IF NegativeBudget(max_depth) \/ file_to_find = <<>>
           \/ ~Found(linked_file_path)
        THEN <<>> ELSE basename(linked_file_path)

\* copy_file_to_export(file_to_find, current_file, traverse, ...,
\* files_already_copied, max_depth), called for the link at the top frame's
\* pc; rnd is what the caller's HTML shows once the call has returned
CopyFileToExport(kind, file_to_find, current_file, traverse, max_depth, rnd) ==
    LET linked_file_path ==
            find_file_in_directory(vault.files, file_to_find,
                                   dirname(normpath(current_file)))
        step == [kind |-> kind, line |-> TopFrame.ops[TopFrame.pc].line,
                 target |-> linked_file_path,
                 known |-> linked_file_path \in {normpath(r) : r \in Range(registry)},
                 recursed |-> FALSE]
    IN  IF NegativeBudget(max_depth) \/ file_to_find = <<>>
        THEN /\ UNCHANGED <<registry, notes, copies, reads, warnings, phase>>
             /\ UNCHANGED <<htmls, export_dir>>
             /\ rendered' = rnd
             /\ stack' = Advanced
             /\ last' = [step EXCEPT !.target = NoPath, !.known = FALSE]
        ELSE IF ~Found(linked_file_path)
        THEN /\ WarnNotFound(file_to_find)
             /\ UNCHANGED <<htmls, export_dir>>
             /\ rendered' = rnd
             /\ last' = step
        ELSE IF CopyFails(linked_file_path)
        THEN \* os.makedirs(notes_dir), then shutil.copyfile raises
             /\ export_dir' = "created"
             /\ phase' = "failed"
             /\ UNCHANGED <<registry, stack, notes, copies, reads, warnings>>
             /\ UNCHANGED htmlVars
             /\ last' = step
        ELSE LET reg == RegistryAfterCopy(linked_file_path, registry)
                 nts == notes \cup {basename(linked_file_path)}
                 cps == Append(copies, linked_file_path)
             IN  /\ registry' = reg
                 /\ warnings' = warnings
                 /\ export_dir' = "created"
                 /\ IF Recurses(linked_file_path, reg, traverse, max_depth)
                    THEN /\ CallRead(linked_file_path, NextDepth(max_depth),
                                     RecursionExportToHtml, Advanced, reg, nts,
                                     cps, rnd)
                         /\ last' = [step EXCEPT !.recursed = TRUE]
                    ELSE /\ stack' = Advanced
                         /\ notes' = nts
                         /\ copies' = cps
                         /\ htmls' = htmls
                         /\ rendered' = rnd
                         /\ UNCHANGED <<reads, phase>>
                         /\ last' = step

\* find_markdown_links: one iteration of "for file_link in re.findall(...)"
WalkMd ==
    /\ UNCHANGED renderVars
    /\ phase = "walk"
    /\ TopFrame.fn = "read_files_recursive"
    /\ TopFrame.pc <= Len(TopFrame.ops)
    /\ ~TopFrame.ops[TopFrame.pc].bang
    /\ LET f == TopFrame
           file_link == f.ops[f.pc].text
           file_only == FileOnly(file_link)
           anchor == AnchorOf(file_link)
           shown(out) == IF f.html
                         THEN Append(rendered, [text |-> file_link, out |-> out])
                         ELSE rendered
           skip(out) ==
               /\ stack' = Advanced
               /\ last' = [NoStep EXCEPT !.kind = "md", !.line = f.ops[f.pc].line]
               /\ rendered' = shown(out)
               /\ UNCHANGED <<registry, notes, copies, reads, warnings, phase>>
               /\ UNCHANGED <<htmls, export_dir>>
       IN  IF anchor # <<>> /\ file_only = <<>>
           THEN \* a self reference ([[#anchor]]), which is rewritten to a
                \* link to the document's own page: no copy
                skip(HtmlLink(<<>>, RemoveMd(basename(f.path)), anchor))
           ELSE IF AddMd(file_only) = <<>>
           THEN \* "if not file_only: continue"
                skip(NoAnchor)
           ELSE CopyFileToExport("md", AddMd(file_only), f.path,
                                 ShouldTraverse(f.depth), f.depth,
                                 shown(HtmlLink(NewFile(AddMd(file_only), f.path,
                                                        f.depth),
                                                AddMd(file_only), anchor)))
    /\ UNCHANGED <<vault, budget, seed, run, registry1, result, message>>
    /\ UNCHANGED inputVars
    /\ UNCHANGED counterVars

\* find_image_links: copy_file_to_export(..., traverse=False, ...)
ImgTraverseAlways == TRUE

ImgTraverse == FALSE

\* find_image_links: one iteration of "for file_link in re.findall(...)"; it
\* calls copy_file_to_export with traverse=False and no max_depth
WalkImg ==
    /\ UNCHANGED renderVars
    /\ phase = "walk"
    /\ TopFrame.fn = "read_files_recursive"
    /\ TopFrame.pc <= Len(TopFrame.ops)
    /\ TopFrame.ops[TopFrame.pc].bang
    /\ LET f == TopFrame
           file_only == FileOnly(f.ops[f.pc].text)
       IN  IF file_only = <<>>
           THEN /\ stack' = Advanced
                /\ last' = [NoStep EXCEPT !.kind = "img", !.line = f.ops[f.pc].line]
                /\ UNCHANGED <<registry, notes, copies, reads, warnings, phase>>
                /\ UNCHANGED <<htmls, rendered, export_dir>>
           ELSE CopyFileToExport("img", file_only, f.path, ImgTraverse, None,
                                 rendered)
    /\ UNCHANGED <<vault, budget, seed, run, registry1, result, message>>
    /\ UNCHANGED inputVars
    /\ UNCHANGED counterVars

\* the file names copy_file_to_export is called with directly
DirectNames == {<<"a", ".md">>, <<"img", ".png">>, <<"ghost", ".md">>}

\* a caller other than the walker (test_copyFileToExport) gets ready to call
\* copy_file_to_export(file_to_find, main_file, traverse, export_dir, [],
\* max_depth) on an empty registry
DirectCallSetUp ==
    /\ UNCHANGED renderVars
    /\ phase = "start"
    /\ seed = "none"
    /\ \E file_to_find \in DirectNames, traverse \in BOOLEAN :
          stack' = <<[path  |-> vault.root,
                      depth |-> budget,
                      html  |-> FALSE,
                      fn    |-> "test",
                      ops   |-> <<[line |-> 1, bang |-> FALSE,
                                   text |-> file_to_find, traverse |-> traverse]>>,
                      pc    |-> 1]>>
    /\ phase' = "walk"
    /\ UNCHANGED <<registry, notes, copies, reads, warnings, last>>
    /\ UNCHANGED <<vault, budget, seed, run, registry1>>
    /\ UNCHANGED <<inputVars, driverVars, htmlVars>>
    /\ UNCHANGED counterVars

\* the direct call of copy_file_to_export
DirectCopy ==
    /\ UNCHANGED renderVars
    /\ phase = "walk"
    /\ TopFrame.fn = "test"
    /\ TopFrame.pc <= Len(TopFrame.ops)
    /\ LET f == TopFrame
       IN  CopyFileToExport("direct", f.ops[f.pc].text, f.path,
                            f.ops[f.pc].traverse, f.depth, rendered)
    /\ UNCHANGED <<vault, budget, seed, run, registry1, result, message>>
    /\ UNCHANGED inputVars
    /\ UNCHANGED counterVars

\* read_files_recursive returns after its last line ("Exported: ..."), or the
\* direct caller is done
WalkReturn ==
    /\ UNCHANGED renderVars
    /\ phase = "walk"
    /\ TopFrame.pc > Len(TopFrame.ops)
    /\ stack' = SubSeq(stack, 1, Len(stack) - 1)
    /\ phase' = IF Len(stack) > 1 THEN "walk"
                ELSE IF TopFrame.fn = "test" THEN "tested" ELSE "done"
    /\ last' = NoStep
    /\ UNCHANGED <<registry, notes, copies, reads, warnings>>
    /\ UNCHANGED <<vault, budget, seed, run, registry1>>
    /\ UNCHANGED <<inputVars, driverVars, htmlVars>>
    /\ UNCHANGED counterVars

\* run_export: the last line of completion_message, from expected_count and
\* actual_count = len(files_copied)
CompletionMessageSwapped(expected_count, actual_count) ==
    IF expected_count > actual_count THEN "additional"
    ELSE IF expected_count < actual_count THEN "missing"
    ELSE "success"

CompletionMessage(expected_count, actual_count) ==
    IF expected_count > actual_count THEN "missing"
    ELSE IF expected_count < actual_count THEN "additional"
    ELSE "success"

\* run_export after read_files_recursive has returned: compare the counts,
\* show the completion message, return True
Report ==
    /\ UNCHANGED renderVars
    /\ phase = "done"
    /\ run = 1
    /\ seed # "none"
    /\ phase' = "reported"
    /\ message' = CompletionMessage(expected, Len(registry))
    /\ result' = "True"
    /\ UNCHANGED <<vault, budget, seed, run, registry1, export_dir>>
    /\ UNCHANGED <<inputVars, htmlVars>>
    /\ UNCHANGED counterVars
    /\ UNCHANGED walkerVars

\* a second session on the same vault, with the budget raised by one and a
\* fresh registry and export directory
NextSession ==
    /\ UNCHANGED renderVars
    /\ phase = "done"
    /\ run = 1
    /\ ~IsNone(budget)
    /\ Val(budget) < MaxDepth + 1
    /\ run' = 2
    /\ budget' = Some(Val(budget) + 1)
    /\ registry1' = registry
    /\ phase' = "counted"
    /\ registry' = <<>>
    /\ stack' = <<>>
    /\ notes' = {}
    /\ copies' = <<>>
    /\ reads' = <<>>
    /\ warnings' = <<>>
    /\ last' = NoStep
    /\ export_dir' = "absent"
    /\ htmls' = {}
    /\ rendered' = <<>>
    /\ UNCHANGED <<vault, seed, result, message>>
    /\ UNCHANGED inputVars
    /\ UNCHANGED counterVars

Next ==
    \/ CountStart
    \/ CountMd
    \/ CountImg
    \/ CountReturn
    \/ ResolveFails
    \/ WalkStart
    \/ WalkMd
    \/ WalkImg
    \/ DirectCallSetUp
    \/ DirectCopy
    \/ WalkReturn
    \/ Report
    \/ NextSession

Spec == Init /\ [][Next]_vars

\* the steps of read_files_recursive and of a direct copy_file_to_export
WalkNext == WalkStart \/ WalkMd \/ WalkImg \/ DirectCopy \/ WalkReturn

\* the driver is about to call read_files_recursive, or a call is running:
\* the states in which a step of WalkNext is possible
WalkerRunning == phase \in {"counted", "walk"}

\* Python runs a call to its end or to an exception: a walk that can take a
\* step takes one (weak fairness of WalkNext, with ENABLED <<WalkNext>>_vars
\* written as the state predicate WalkerRunning)
WalkFairness == []<>(~WalkerRunning) \/ []<><<WalkNext>>_vars

WalkSpec == Spec /\ WalkFairness

(***************************************************************************)
(* The document graph of a vault, for stating the properties.               *)
(***************************************************************************)
\* the files the document links of p resolve to
DocTargets(v, p) ==
    {find_file_in_directory(v.files, AddMd(FileOnly(l.text)), dirname(p)) :
        l \in {m \in Range(MdMatches(Flatten(ContentOf(v, p)))) : FileOnly(m.text) # <<>>}}
    \ {NoPath}

\* the files the image links of p resolve to
ImgTargets(v, p) ==
    {find_file_in_directory(v.files, FileOnly(l.text), dirname(p)) :
        l \in {m \in Range(ImgMatches(Flatten(ContentOf(v, p)))) : FileOnly(m.text) # <<>>}}
    \ {NoPath}

\* the documents reachable from those of S through chains of document links
RECURSIVE Reach(_, _)
Reach(v, S) ==
    LET T == S \cup UNION {DocTargets(v, p) : p \in S}
    IN  IF T = S THEN S ELSE Reach(v, T)

\* the reachable documents that lie on a cycle of document links
OnCycle(v) ==
    {p \in Reach(v, {v.root}) : p \in Reach(v, DocTargets(v, p))}

\* the registry as a set of normalized paths
Registered == {normpath(r) : r \in Range(registry)}

\* how often normalized path p is in the registry
Occurrences(p) == Cardinality({i \in 1..Len(registry) : normpath(registry[i]) = p})

Seeded == seed \in {"norm", "raw"}

(***************************************************************************)
(* C1..C10.                                                                 *)
(***************************************************************************)
\* C1 (Counter/Walker equivalence): when the registry is seeded with the root
\* as run_export and main do and the walk has returned, the count returned by
\* count_expected_links equals the length of the registry.  Stated for the
\* root seeded in normal form.
C1_CounterWalkerEquivalence ==
    (phase = "done" /\ run = 1 /\ seed = "norm") => expected = Len(registry)

\* C2 (cycle termination): on a vault with a cycle of document links and an
\* unbounded budget the walk does not end in RecursionError, and once it has
\* returned every document on a cycle is in the registry exactly once.
\* Stated for the root seeded in normal form.
C2_CycleTermination ==
    (run = 1 /\ seed = "norm" /\ IsNone(budget) /\ OnCycle(vault) # {})
        => /\ phase # "crashed"
           /\ phase = "done" => \A p \in OnCycle(vault) : Occurrences(p) = 1

\* C3 (cycle safety): a document link whose target was in the registry before
\* the link was processed causes no recursive read_files_recursive call, and no
\* normalized path is read twice in one session.
C3_CycleSafety ==
    /\ ~(last.kind = "md" /\ last.known /\ last.recursed)
    /\ \A i, j \in 1..Len(reads) : reads[i].path = reads[j].path => i = j

\* C4 (idempotent registry): in every reachable state the registry holds each
\* normalized path at most once, in whichever form the root was seeded.
C4_IdempotentRegistry ==
    \A i, j \in 1..Len(registry) :
        normpath(registry[i]) = normpath(registry[j]) => i = j

\* C5 (depth monotonicity): the registry of a walk with budget d >= 0 is a
\* subset of the registry of the walk with budget d + 1 on the same vault and
\* root.
C5_DepthMonotonicity ==
    (run = 2 /\ phase = "done" /\ Val(budget) >= 1)
        => {normpath(r) : r \in Range(registry1)} \subseteq Registered

\* C6 (depth 0): with budget 0 the walk copies the root and copies or
\* registers no other file, so the registry is {root}, as the counter says
\* (count 1, visited {root}).  Stated for the root seeded in normal form.
C6_DepthZeroOnlyMain ==
    (phase = "done" /\ run = 1 /\ seed = "norm" /\ budget = Some(0))
        => /\ Registered = {vault.root}
           /\ Range(copies) = {vault.root}
           /\ notes = {basename(vault.root)}
           /\ expected = 1
           /\ visited = {vault.root}

\* the root, the documents its document links resolve to and the files its
\* image links resolve to
DirectFiles(v) == {v.root} \cup DocTargets(v, v.root) \cup ImgTargets(v, v.root)

C8_UnboundedReachability ==
    (phase = "done" /\ IsNone(budget) /\ Seeded)
        => Registered = Reach(vault, {vault.root})
                        \cup UNION {ImgTargets(vault, p) : p \in Reach(vault, {vault.root})}

\* C9 (append-only registry): every step of the walk leaves the previous
\* registry as a prefix of the new one.
C9_RegistryAppendOnly ==
    [][(phase \in {"counted", "walk"}) => (IsPrefix(registry, registry'))]_vars

\* the walk is under way and has appended two files to the seeded registry
C9_Witness ==
    /\ phase = "walk"
    /\ Seeded
    /\ Len(registry) >= 3

\* the name the pending link of the top frame is looked up with
PendingName ==
    LET op == TopFrame.ops[TopFrame.pc]
    IN  IF op.bang THEN FileOnly(op.text) ELSE AddMd(FileOnly(op.text))

\* the walk's next step is a link the resolver cannot find
PendingNotFound ==
    /\ phase = "walk"
    /\ TopFrame.fn = "read_files_recursive"
    /\ TopFrame.pc <= Len(TopFrame.ops)
    /\ PendingName # <<>>
    /\ find_file_in_directory(vault.files, PendingName,
                              dirname(normpath(TopFrame.path))) = NoPath

\* every link of every document read was processed: its target is registered,
\* or its name was warned about
LinksAllProcessed ==
    \A r \in Range(reads) :
        \A op \in Range(WalkerOps(ContentOf(vault, r.path), r.depth)) :
            LET name == IF op.bang THEN FileOnly(op.text) ELSE AddMd(FileOnly(op.text))
                target == find_file_in_directory(vault.files, name, dirname(r.path))
            IN  name # <<>> =>
                   IF target = NoPath THEN name \in Range(warnings)
                   ELSE target \in Registered

LinksProcessed(p, d) ==
    \A op \in Range(WalkerOps(ContentOf(vault, p), d)) :
        LET name == IF op.bang THEN FileOnly(op.text) ELSE AddMd(FileOnly(op.text))
            target == find_file_in_directory(vault.files, name, dirname(p))
        IN  name # <<>> =>
               IF target = NoPath THEN name \in Range(warnings)
               ELSE target \in Registered \/ target = FaultyFile

\* C11 (I/O failure on a linked document is not fatal): when a linked document
\* other than the root cannot be copied or opened, the export does not abort
\* (no exception ends the walk), and the walk ends with the remaining links of
\* every document it read processed.
C11_IOFailureSkipped ==
    io_fault # "none" =>
        /\ phase # "failed"
        /\ phase = "done" => \A r \in Range(reads) : LinksProcessed(r.path, r.depth)

\* C12 (root not found aborts before any output): when resolve_path reports
\* an error for the root, the session ends without the export directory being
\* created or cleaned, without any copy, without the counter or the walker
\* having started, and run_export has returned False (main has exited).
C12_RootNotFoundAborts ==
    ~root_exists =>
        /\ phase \in {"start", "aborted"}
        /\ export_dir = "absent"
        /\ copies = <<>> /\ notes = {} /\ registry = <<>> /\ htmls = {}
        /\ cstack = <<>> /\ visited = {} /\ expected = 0
        /\ stack = <<>> /\ reads = <<>>
        /\ phase = "aborted" => result = "False"

C12_Witness == ~root_exists /\ phase = "aborted" /\ result = "False"

\* C13 (consistency self-check): once run_export has shown its completion
\* message, the message warns of missing files exactly when the expected count
\* is greater than the length of the registry, of additional files exactly
\* when it is smaller, and reports success exactly when the two are equal; no
\* message is shown before.
C13_ConsistencySelfCheck ==
    /\ phase = "reported" =>
          /\ message = "missing" <=> expected > Len(registry)
          /\ message = "additional" <=> expected < Len(registry)
          /\ message = "success" <=> expected = Len(registry)
          /\ result = "True"
    /\ phase # "reported" => message = "none"

C13_Witness == phase = "reported" /\ message = "missing" /\ expected > Len(registry)

\* the walk's next step is an image link
ImgPending ==
    /\ phase = "walk"
    /\ TopFrame.fn = "read_files_recursive"
    /\ TopFrame.pc <= Len(TopFrame.ops)
    /\ TopFrame.ops[TopFrame.pc].bang

\* the file the pending image link resolves to
ImgPendingTarget ==
    find_file_in_directory(vault.files, FileOnly(TopFrame.ops[TopFrame.pc].text),
                           dirname(normpath(TopFrame.path)))

C15_NegativeBudgetHardStop ==
    (~IsNone(budget) /\ Val(budget) < 0) =>
        /\ reads = <<>> /\ warnings = <<>>
        /\ phase \notin {"crashed", "failed"}
        /\ \A i \in 1..Len(stack) : stack[i].fn = "test"
        /\ seed = "none" =>
              /\ registry = <<>> /\ copies = <<>> /\ notes = {}
              /\ export_dir = "absent"
        /\ (seed # "none" /\ phase \in {"walk", "done", "reported"}) =>
              /\ registry = SeedRegistry
              /\ copies = <<normpath(RootArg)>>
              /\ notes = {basename(RootArg)}

C15_Witness ==
    /\ ~IsNone(budget) /\ Val(budget) < 0
    /\ phase = "walk"
    /\ TopFrame.fn = "test"
    /\ TopFrame.pc = 2
    /\ TopFrame.ops[1].traverse
    /\ TopFrame.ops[1].text = <<"a", ".md">>
    /\ last.kind = "direct"

\* the document links of the root, as written
RootDocLinks == Range(MdMatches(Flatten(ContentOf(vault, vault.root))))

\* what the HTML of the root shows for the link written as text
ShownFor(text) == {rendered[i].out : i \in {j \in 1..Len(rendered) : rendered[j].text = text}}

\* C17 (self-reference rendering): when an HTML session with a budget of 0,
\* a positive budget or no budget has ended, every link [[#section]] of the
\* root X.md is shown as an anchor whose href is X.md.html#section.
C17_SelfReferenceRendering ==
    (phase = "done" /\ export_to_html /\ (IsNone(budget) \/ Val(budget) >= 0)) =>
        \A l \in RootDocLinks :
            (FileOnly(l.text) = <<>> /\ AnchorOf(l.text) # <<>>) =>
                /\ ShownFor(l.text) # {}
                /\ \A out \in ShownFor(l.text) :
                      out.href = basename(vault.root) \o <<".html">> \o AnchorOf(l.text)

\* C18 (unresolvable link in HTML mode): when an HTML session with any
\* non-negative or no budget has ended, every document link of the root whose
\* file cannot be resolved is shown as an anchor labelled with the target as
\* written, and no file of that name is in the registry.
C18_UnresolvableLinkRendering ==
    (phase = "done" /\ export_to_html /\ (IsNone(budget) \/ Val(budget) >= 0)) =>
        \A l \in RootDocLinks :
            (/\ FileOnly(l.text) # <<>>
             /\ ~Found(find_file_in_directory(vault.files, AddMd(FileOnly(l.text)),
                                              dirname(vault.root)))) =>
                /\ ShownFor(l.text) # {}
                /\ \A out \in ShownFor(l.text) :
                      /\ out # NoAnchor
                      /\ out.label = RemoveMd(FileOnly(l.text)) \o AnchorOf(l.text)
                /\ \A r \in Range(registry) : r.name # AddMd(FileOnly(l.text))

\* C19 (one .html per processed document): when an HTML session has ended,
\* an .html file was written for every document read_files_recursive read.
C19_HtmlForEveryDocument ==
    (phase = "done" /\ export_to_html) =>
        {r.path : r \in Range(reads)} \subseteq htmls

\* the walk's next step is a document link
MdPending ==
    /\ phase = "walk"
    /\ TopFrame.fn = "read_files_recursive"
    /\ TopFrame.pc <= Len(TopFrame.ops)
    /\ ~TopFrame.ops[TopFrame.pc].bang

\* the target t of the pending document link, without extension, anchor or
\* alias
MdPendingTarget == RemoveMd(FileOnly(TopFrame.ops[TopFrame.pc].text))

\* the four spellings of a link to t: [[t]], [[t.md]], [[t#anchor]], [[t|alias]]
Spellings(t) ==
    {t, t \o <<".md">>, t \o <<"#", "anchor">>, t \o <<"|", "alias">>}

\* C20 (alias and anchor never affect resolution or traversal): wherever the
\* walker meets a document link to a target t, the four spellings of the link
\* give the walker and the counter the same file name to look up, and the
\* step taken resolves the file the plain link [[t]] resolves; the budget
\* decides the traversal alone.
C20_AliasAnchorIrrelevant ==
    /\ [](MdPending /\ MdPendingTarget # <<>> =>
            \A text \in Spellings(MdPendingTarget) :
                AddMd(FileOnly(text)) = Append(MdPendingTarget, ".md"))
    /\ [][(MdPending /\ MdPendingTarget # <<>>) =>
            (/\ last'.target =
                   find_file_in_directory(vault.files, Append(MdPendingTarget, ".md"),
                                          dirname(normpath(TopFrame.path)))
             /\ last'.recursed =
                   (/\ Found(last'.target)
                    /\ ~CopyFails(last'.target)
                    /\ Recurses(last'.target, registry', ShouldTraverse(TopFrame.depth),
                                TopFrame.depth)))]_vars

C20_Witness ==
    /\ phase = "walk"
    /\ last.kind = "md"
    /\ last.recursed
    /\ \E i \in 1..Len(stack) :
          /\ stack[i].pc > 1
          /\ stack[i].pc - 1 <= Len(stack[i].ops)
          /\ "|" \in Range(stack[i].ops[stack[i].pc - 1].text)
          /\ last.target.name = AddMd(FileOnly(stack[i].ops[stack[i].pc - 1].text))

\* the link targets copied so far: the shutil.copyfile calls whose source is
\* not the root
LinkCopies == SelectSeq(copies, LAMBDA p : p # normpath(RootArg))

\* C21 (copy at most once): in one session no link target is copied to the
\* output directory twice, however many links point at it: the copies of link
\* targets hold each source file at most once.
C21_CopyAtMostOnce ==
    \A i, j \in 1..Len(LinkCopies) : LinkCopies[i] = LinkCopies[j] => i = j

\* C23 (only the top-level document is rendered): every call of
\* read_files_recursive made from copy_file_to_export runs with
\* export_to_html=False, so process_file_to_html runs on no document but the
\* root, and on the root only in the call the driver made.
C23_OnlyRootRendered ==
    /\ \A i \in 2..Len(stack) : ~stack[i].html
    /\ htmls \subseteq {normpath(RootArg)}
    /\ ~export_to_html => htmls = {}

C23_Witness ==
    /\ export_to_html
    /\ phase = "walk"
    /\ Len(stack) >= 2
    /\ TopFrame.fn = "read_files_recursive"
    /\ TopFrame.path # normpath(RootArg)
    /\ stack[1].html
    /\ htmls = {normpath(RootArg)}

\* the documents at most n document-link hops from the root of v
RECURSIVE Within(_, _)
Within(v, n) ==
    IF n = 0 THEN {v.root}
    ELSE LET W == Within(v, n - 1)
         IN  W \cup UNION {DocTargets(v, p) : p \in W}

\* the session is a walk of read_files_recursive from the root (not a direct
\* call of copy_file_to_export)
WalkerSession ==
    /\ phase \in {"walk", "done", "reported", "crashed", "failed"}
    /\ stack # <<>> => stack[1].fn = "read_files_recursive"

\* C24 (depth bound): every recursive call of read_files_recursive runs with
\* its caller's budget minus 1 (no budget stays no budget), and in every state
\* of a walk with budget d >= 0 every document in the registry lies at most d
\* document-link hops from the root.
C24_DepthBound ==
    /\ \A i \in 2..Len(stack) : stack[i].depth = NextDepth(stack[i - 1].depth)
    /\ (WalkerSession /\ ~IsNone(budget) /\ Val(budget) >= 0) =>
           \A p \in Registered :
               EndsWithMd(p.name) => p \in Within(vault, Val(budget))

\* C25 (depth completeness): when a walk with budget d >= 0 from a seeded
\* root has returned, every document at most d document-link hops from the
\* root is in the registry, in whatever order the links stand.
C25_DepthCompleteness ==
    (/\ WalkerSession /\ phase = "done" /\ Seeded /\ io_fault = "none"
     /\ ~IsNone(budget) /\ Val(budget) >= 0)
        => Within(vault, Val(budget)) \subseteq Registered

\* the walk's next step is a document link with an empty target
EmptyTargetPending ==
    /\ MdPending
    /\ SplitFirst(SplitFirst(TopFrame.ops[TopFrame.pc].text, "#"), "|") = <<>>

\* C29 (self-reference and malformed links have no traversal effect): a step
\* on a document link with an empty target ([[#anchor]], [[]], [[|alias]])
\* resolves no file (nothing is warned about), copies nothing, leaves the
\* registry as it is and calls read_files_recursive on nothing, with and
\* without HTML.
C29_EmptyTargetNoEffect ==
    [][EmptyTargetPending =>
         (/\ registry' = registry
          /\ copies' = copies
          /\ notes' = notes
          /\ reads' = reads
          /\ warnings' = warnings
          /\ htmls' = htmls
          /\ phase' = phase
          /\ stack' = Advanced)]_vars

\* the HTML walker is past the three links without a target of the root
C29_Witness ==
    /\ vault = MalformedVault
    /\ export_to_html
    /\ phase = "walk"
    /\ Len(stack) = 1
    /\ TopFrame.pc = 4
    /\ registry = SeedRegistry
    /\ copies = <<normpath(RootArg), normpath(RootArg)>>
    /\ warnings = <<>>

\* C30 (the walker registers its own root): when read_files_recursive(root, d)
\* has returned for a budget d >= 0 (or no budget), the root is in the
\* registry, also when the caller passed an empty registry.
C30_RootRegistered ==
    (/\ WalkerSession /\ phase = "done" /\ io_fault = "none"
     /\ (IsNone(budget) \/ Val(budget) >= 0))
        => normpath(RootArg) \in Registered

\* the counts of the calls of count_expected_links that have not returned yet
RECURSIVE CountsOf(_)
CountsOf(frames) ==
    IF frames = <<>> THEN 0
    ELSE frames[1].count + CountsOf(Tail(frames))

\* the file name the counter's next match is looked up with
CounterPendingName ==
    LET link == CTop.ops[CTop.pc]
    IN  IF link.bang THEN FileOnly(link.text) ELSE AddMd(FileOnly(link.text))

\* the counter's next match names no file of the vault
CounterUnresolvedPending ==
    /\ phase = "count"
    /\ CTop.pc <= Len(CTop.ops)
    /\ ~Found(find_file_in_directory(vault.files, CounterPendingName,
                                     dirname(CTop.path)))

\* C31 (counter bookkeeping): while count_expected_links runs on an empty
\* visited set, the counts of its unfinished calls add up to the number of
\* paths in visited, and the count it returns is the size of visited (every
\* file is counted once); a match that names no file leaves visited and the
\* counts as they are.
C31_CounterBookkeeping ==
    /\ [](phase = "count" => CountsOf(cstack) = Cardinality(visited))
    /\ [](phase = "counted" => expected = Cardinality(visited))
    /\ [][CounterUnresolvedPending =>
            (/\ visited' = visited
             /\ Len(cstack') = Len(cstack)
             /\ CountsOf(cstack') = CountsOf(cstack))]_vars

\* the count of the test vault without a budget has returned: nine files,
\* with a cycle, a missing file and files linked twice on the way
C31_Witness ==
    /\ vault = CountingTestVault
    /\ IsNone(budget)
    /\ phase = "counted"
    /\ expected = 9
    /\ Cardinality(visited) = 9

\* C32 (counter termination): a started count returns, on every vault and
\* budget, cycles and self links included; a call of count_expected_links is
\* made only on a path that is not in visited and puts it there, and visited
\* never loses a path, so the counter enters each document at most once.
C32_CounterTermination ==
    /\ CounterRunning ~> (phase = "counted")
    /\ [][(phase' = "count" /\ Len(cstack') > Len(cstack)) =>
            (/\ cstack'[Len(cstack')].path \notin visited
             /\ cstack'[Len(cstack')].path \in visited')]_vars
    /\ [][(phase = "count") => (visited \subseteq visited')]_vars

\* the count of the circular test vault without a budget has returned
C32_Witness ==
    /\ vault = ExportTestVault(TRUE)
    /\ IsNone(budget)
    /\ phase = "counted"
    /\ expected = 3
    /\ visited = vault.files

\* read_files_recursive(root, d) is running with a budget d >= 0
BoundedWalk ==
    /\ WalkerSession
    /\ phase = "walk"
    /\ ~IsNone(budget) /\ Val(budget) >= 0

\* the walker is in a document it reads with a budget of at most 1
LowBudgetFrame ==
    /\ phase = "walk"
    /\ TopFrame.fn = "read_files_recursive"
    /\ ~IsNone(TopFrame.depth) /\ Val(TopFrame.depth) <= 1

\* C33 (bounded-budget termination): a walk with a budget d >= 0 ends, by
\* returning or by an exception of the file system, never by RecursionError,
\* on every vault, cycles and self links included; the budget of every call
\* of read_files_recursive is 1 less than its caller's, and no call is made
\* from a document read with a budget of at most 1.
C33_BoundedTermination ==
    /\ BoundedWalk ~> (phase \in {"done", "failed"})
    /\ [][BoundedWalk => (phase' # "crashed")]_vars
    /\ [](BoundedWalk =>
            \A i \in 2..Len(stack) :
                /\ ~IsNone(stack[i].depth)
                /\ Val(stack[i].depth) = Val(stack[i - 1].depth) - 1)
    /\ [][LowBudgetFrame => (Len(stack') <= Len(stack))]_vars

\* a walk with a budget has returned after it read a document twice
C33_Witness ==
    /\ WalkerSession
    /\ phase = "done"
    /\ ~IsNone(budget) /\ Val(budget) >= 0
    /\ \E i, j \in 1..Len(reads) : i < j /\ reads[i].path = reads[j].path

(***************************************************************************)
(* HTML rendering of one document: process_file_to_html with the            *)
(* converters of html_converter.  A line is a sequence of tokens: "tick" is *)
(* a backtick, "<" and ">" are themselves, "%%" is the comment marker,      *)
(* "[[a]]" is a document link and "x" is a word; the tags the converters    *)
(* write are tokens of their own.                                           *)
(***************************************************************************)
\* lines of a rendered document
MaxLines == 3

\* sub in s
Contains(s, sub) ==
    \E i \in 1..(Len(s) - Len(sub) + 1) : SubSeq(s, i, i + Len(sub) - 1) = sub

\* s.replace(old, new): every occurrence, from the left
RECURSIVE Replace(_, _, _)
Replace(s, old, new) ==
    IF Len(s) < Len(old) THEN s
    ELSE IF SubSeq(s, 1, Len(old)) = old
         THEN new \o Replace(SubSeq(s, Len(old) + 1, Len(s)), old, new)
         ELSE <<Head(s)>> \o Replace(Tail(s), old, new)

\* html.escape
escape(s) ==
    [i \in 1..Len(s) |-> CASE s[i] = "<" -> "&lt;"
                           [] s[i] = ">" -> "&gt;"
                           [] OTHER -> s[i]]

\* re.findall of the inline-code pattern (backtick, anything but backticks,
\* backtick): what stands between the backticks, paired
\* from the left
RECURSIVE InlineCodes(_)
InlineCodes(s) ==
    LET tick(t) == CHOOSE i \in 1..Len(t) : t[i] = "tick" /\ \A j \in 1..(i - 1) : t[j] # "tick"
    IN  IF "tick" \notin Range(s) THEN <<>>
        ELSE LET rest == SubSeq(s, tick(s) + 1, Len(s))
             IN  IF "tick" \notin Range(rest) THEN <<>>
                 ELSE <<SubSeq(rest, 1, tick(rest) - 1)>>
                      \o InlineCodes(SubSeq(rest, tick(rest) + 1, Len(rest)))

\* convert_inline_code's loop: each code found, with its two backticks, is
\* replaced by '<code>' + html.escape(code) + '</code>' wherever it stands
RECURSIVE ReplaceCodes(_, _)
ReplaceCodes(line, codes) ==
    IF codes = <<>> THEN line
    ELSE ReplaceCodes(Replace(line, <<"tick">> \o Head(codes) \o <<"tick">>,
                              <<"<code>">> \o escape(Head(codes)) \o <<"</code>">>),
                      Tail(codes))

\* html_converter.convert_inline_code
convert_inline_code(line) == ReplaceCodes(line, InlineCodes(line))

\* the triple backtick
Fence == <<"tick", "tick", "tick">>

\* html_converter.convert_code_block: (line, in_code_block)
convert_code_block(line, in_block) ==
    IF Contains(line, Fence)
    THEN IF in_block
         THEN [line |-> Replace(line, Fence, <<"</code></pre>">>),
               in_code_block |-> FALSE]
         ELSE [line |-> Replace(line, Fence, <<"<pre><code>">>),
               in_code_block |-> TRUE]
    ELSE [line |-> line, in_code_block |-> in_block]

\* html_converter.convert_comment_block: (line, in_comment)
convert_comment_block(line, in_cmt) ==
    IF "%%" \in Range(line)
    THEN IF in_cmt
         THEN [line |-> Replace(line, <<"%%">>, <<"-->">>), in_comment |-> FALSE]
         ELSE [line |-> Replace(line, <<"%%">>, <<"<!--">>), in_comment |-> TRUE]
    ELSE [line |-> line, in_comment |-> in_cmt]

\* html_converter.insert_paragraphs
insert_paragraphs(line) == IF line = <<>> THEN <<"<p>">> ELSE line

\* the first position of s that holds a token of S
FirstOf(s, S) == CHOOSE i \in 1..Len(s) : s[i] \in S /\ \A j \in 1..(i - 1) : s[j] \notin S

\* re.findall of the pattern \[([^\]]*)\]\(([^\)]*)\): the (text, url) pairs
\* of the links written [text](url), from the left; "](" and "[[a]]" are the
\* tokens that hold a closing bracket
RECURSIVE LabeledLinks(_)
LabeledLinks(s) ==
    IF "[" \notin Range(s) THEN <<>>
    ELSE LET rest == SubSeq(s, FirstOf(s, {"["}) + 1, Len(s))
             closing == {"](", "[[a]]"}
         IN  IF Range(rest) \cap closing = {} THEN <<>>
             ELSE LET k == FirstOf(rest, closing)
                      rest2 == SubSeq(rest, k + 1, Len(rest))
                  IN  IF rest[k] # "](" \/ ")" \notin Range(rest2)
                      THEN LabeledLinks(rest)
                      ELSE LET m == FirstOf(rest2, {")"})
                           IN  <<[text |-> SubSeq(rest, 1, k - 1),
                                  url  |-> SubSeq(rest2, 1, m - 1)]>>
                               \o LabeledLinks(SubSeq(rest2, m + 1, Len(rest2)))

\* the anchor element <a href="url">text</a>, as tokens
Anchor(url, text) == <<"<a href='">> \o url \o <<"'>">> \o text \o <<"</a>">>

\* convert_link_in_text: "for (text, url) in re.findall(...): line.replace"
RECURSIVE ReplaceLabeled(_, _)
ReplaceLabeled(line, links) ==
    IF links = <<>> THEN line
    ELSE ReplaceLabeled(Replace(line,
                                <<"[">> \o Head(links).text \o <<"](">>
                                    \o Head(links).url \o <<")">>,
                                Anchor(Head(links).url, Head(links).text)),
                        Tail(links))

\* html_converter.convert_link_in_text
convert_link_in_text(line) == ReplaceLabeled(line, LabeledLinks(line))

\* re.findall of the pattern https?://[^\s]+ : from each URL on, everything up
\* to the next white space
RECURSIVE ExternalUrls(_)
ExternalUrls(s) ==
    IF "http://u" \notin Range(s) THEN <<>>
    ELSE LET rest == SubSeq(s, FirstOf(s, {"http://u"}), Len(s))
             j == IF " " \in Range(rest) THEN FirstOf(rest, {" "}) - 1 ELSE Len(rest)
         IN  <<SubSeq(rest, 1, j)>> \o ExternalUrls(SubSeq(rest, j + 1, Len(rest)))

\* convert_external_links: "for url in re.findall(...): line.replace"
RECURSIVE ReplaceUrls(_, _)
ReplaceUrls(line, urls) ==
    IF urls = <<>> THEN line
    ELSE ReplaceUrls(Replace(line, Head(urls), Anchor(Head(urls), Head(urls))),
                     Tail(urls))

\* html_converter.convert_external_links
convert_external_links(line) == ReplaceUrls(line, ExternalUrls(line))

\* process_file_to_html on a prose line: find_markdown_links rewrites the
\* link to an anchor, then the inline converters run in the order of the code
\* (the tokens of the model hold no rule, heading, list, checkbox or bold text)
ConvertProse(line) ==
    insert_paragraphs(
        convert_external_links(
            convert_link_in_text(
                convert_inline_code(Replace(line, <<"[[a]]">>, <<"<a>">>)))))

\* '"<code" not in line'
HasCodeTag(line) == \E t \in Range(line) : t \in {"<code>", "<pre><code>"}

\* the lines documents are written with
RenderLines ==
    {Fence, Fence \o <<"x">>, <<"<", "x", ">">>, <<"tick", "x", "tick">>, <<"[[a]]">>,
     <<"%%">>, <<"x">>, <<>>,
     <<"[", "x", "](", "http://u", ")">>, <<"x", " ", "http://u", " ", "x">>}

RenderDocs == UNION {[1..n -> RenderLines] : n \in 1..MaxLines}

\* re.findall of the document-link pattern on a line of tokens
RenderLinks(line) ==
    LET found == SelectSeq(line, LAMBDA t : t = "[[a]]")
    IN  [i \in 1..Len(found) |-> DocLink(<<"a">>)]

\* the directory a rendered document d stands in: page.md with the lines of
\* d, and the empty document a.md its links name
RenderVault(d) ==
    [root  |-> Md("page"),
     files |-> {Md("page"), Md("a")},
     text  |-> (Md("page") :> [i \in 1..Len(d) |-> RenderLinks(d[i])])
               @@ (Md("a") :> <<>>)]

\* the walker state one line of the root is processed in
WalkerState ==
    [registry |-> registry, notes |-> notes, copies |-> copies, reads |-> reads,
     warnings |-> warnings]

\* copy_file_to_export called for a link of the root that names a document
\* without links: the file is copied and registered, and copied once more and
\* read when copy_file_to_export calls read_files_recursive on it
LinkStep(op, w) ==
    LET name == IF op.bang THEN FileOnly(op.text) ELSE AddMd(FileOnly(op.text))
        target == find_file_in_directory(vault.files, name, dirname(vault.root))
        reg == RegistryAfterCopy(target, w.registry)
        rec == /\ ~op.bang
               /\ Recurses(target, reg, ShouldTraverse(budget), budget)
    IN  IF name = <<>> THEN w
        ELSE IF ~Found(target) THEN [w EXCEPT !.warnings = Append(@, name)]
        ELSE [w EXCEPT !.registry = reg,
                       !.notes = @ \cup {basename(target)},
                       !.copies = @ \o <<target>> \o (IF rec THEN <<target>> ELSE <<>>),
                       !.reads = IF rec
                                 THEN Append(@, [path |-> target,
                                                 depth |-> NextDepth(budget)])
                                 ELSE @]

\* find_markdown_links, then find_image_links, on one line: the links in turn
RECURSIVE LinkSteps(_, _)
LinkSteps(ops, w) ==
    IF ops = <<>> THEN w ELSE LinkSteps(Tail(ops), LinkStep(Head(ops), w))

\* the walker state after the links of the line were processed
AfterLinks(line) ==
    LinkSteps(LineOps(<<RenderLinks(line)>>, 1, budget), WalkerState)

SetWalkerState(w) ==
    /\ registry' = w.registry
    /\ notes' = w.notes
    /\ copies' = w.copies
    /\ reads' = w.reads
    /\ warnings' = w.warnings
    /\ UNCHANGED <<stack, last>>

\* what process_file_to_html writes for a line inside a comment block: "line = ''"
InCommentLineKept(line) == line

InCommentLine(line) == <<>>

\* process_file_to_html is called on a document
RenderInit ==
    /\ data \in RenderDocs
    /\ lineno = 0
    /\ in_code_block = FALSE
    /\ in_comment = FALSE
    /\ output = <<>>
    /\ inside = <<>>
    /\ phase = "render"
    /\ vault = RenderVault(data)
    /\ budget = None
    /\ seed = "norm"
    /\ run = 1
    /\ cstack = <<>> /\ visited = {} /\ expected = 0
    \* main has copied the root and seeded the registry with it, and
    \* read_files_recursive has copied and read it
    /\ registry = <<ensure_str_path(Md("page"))>>
    /\ notes = {basename(Md("page"))}
    /\ copies = <<Md("page"), Md("page")>>
    /\ reads = <<[path |-> Md("page"), depth |-> None]>>
    /\ stack = <<>> /\ warnings = <<>> /\ last = NoStep /\ registry1 = <<>>
    /\ export_to_html = TRUE /\ io_fault = "none" /\ root_exists = TRUE
    /\ export_dir = "created" /\ result = "none" /\ message = "none"
    /\ htmls = {Md("page")} /\ rendered = <<>>

\* one iteration of process_file_to_html's "for line in data"
RenderLine ==
    /\ phase = "render"
    /\ lineno < Len(data)
    /\ LET line0 == data[lineno + 1]
           line1 == IF ~in_code_block THEN convert_inline_code(line0) ELSE line0
           cb == convert_code_block(line1, in_code_block)
           cm == convert_comment_block(cb.line, in_comment)
           emit(written, line) ==
               output' = Append(output, [written |-> written, line |-> line])
       IN  /\ in_code_block' = cb.in_code_block
           /\ inside' = Append(inside, cb.in_code_block)
           /\ IF ~cb.in_code_block
              THEN /\ in_comment' = cm.in_comment
                   /\ IF in_comment
                      THEN /\ emit(TRUE, InCommentLine(cm.line))
                           /\ UNCHANGED walkerVars
                      ELSE IF cm.in_comment
                      THEN /\ emit(FALSE, <<>>)                     \* continue
                           /\ UNCHANGED walkerVars
                      ELSE \* find_markdown_links and find_image_links,
                           \* then the inline converters
                           /\ emit(TRUE, ConvertProse(cm.line))
                           /\ SetWalkerState(AfterLinks(cm.line))
              ELSE /\ in_comment' = in_comment
                   /\ emit(TRUE, IF ~HasCodeTag(cb.line) THEN escape(cb.line)
                                 ELSE cb.line)
                   /\ UNCHANGED walkerVars
    /\ lineno' = lineno + 1
    /\ UNCHANGED <<data, phase>>
    /\ UNCHANGED <<vault, budget, seed, run, registry1>>
    /\ UNCHANGED <<inputVars, driverVars, htmlVars>>
    /\ UNCHANGED counterVars

\* process_file_to_html writes the footer and closes the file
RenderEnd ==
    /\ phase = "render"
    /\ lineno = Len(data)
    /\ phase' = "rendered"
    /\ UNCHANGED renderVars
    /\ UNCHANGED <<vault, budget, seed, run, registry1>>
    /\ UNCHANGED <<inputVars, driverVars, htmlVars>>
    /\ UNCHANGED counterVars
    /\ UNCHANGED walkerVars

\* the same document is walked once more without HTML, as
\* read_files_recursive(path, max_depth, export_to_html=False) does after main
\* has copied the root and seeded a fresh registry; the registry of the HTML
\* pass is kept in registry1
PlainStart ==
    /\ phase = "rendered"
    /\ phase' = "plain"
    /\ export_to_html' = FALSE
    /\ registry1' = registry
    /\ registry' = <<ensure_str_path(vault.root)>>
    /\ notes' = {basename(vault.root)}
    /\ copies' = <<vault.root, vault.root>>
    /\ reads' = <<[path |-> vault.root, depth |-> budget]>>
    /\ warnings' = <<>>
    /\ lineno' = 0
    /\ htmls' = {}
    /\ UNCHANGED <<data, in_code_block, in_comment, output, inside>>
    /\ UNCHANGED <<vault, budget, seed, run, stack, last, rendered>>
    /\ UNCHANGED <<io_fault, root_exists>>
    /\ UNCHANGED driverVars
    /\ UNCHANGED counterVars

\* one iteration of read_files_recursive's "for line in data":
\* find_markdown_links, then find_image_links, on every line
PlainLine ==
    /\ phase = "plain"
    /\ lineno < Len(data)
    /\ SetWalkerState(AfterLinks(data[lineno + 1]))
    /\ lineno' = lineno + 1
    /\ UNCHANGED <<data, in_code_block, in_comment, output, inside, phase>>
    /\ UNCHANGED <<vault, budget, seed, run, registry1>>
    /\ UNCHANGED <<inputVars, driverVars, htmlVars>>
    /\ UNCHANGED counterVars

\* read_files_recursive returns ("Exported: ...")
PlainEnd ==
    /\ phase = "plain"
    /\ lineno = Len(data)
    /\ phase' = "compared"
    /\ UNCHANGED renderVars
    /\ UNCHANGED <<vault, budget, seed, run, registry1>>
    /\ UNCHANGED <<inputVars, driverVars, htmlVars>>
    /\ UNCHANGED counterVars
    /\ UNCHANGED walkerVars

RenderNext ==
    \/ RenderLine
    \/ RenderEnd
    \/ PlainStart
    \/ PlainLine
    \/ PlainEnd

RenderSpec == RenderInit /\ [][RenderNext]_vars

\* the lines of d that hold a triple backtick
FenceLines(d) == {i \in 1..Len(d) : Contains(d[i], Fence)}

\* how often the tag stands in the lines written
TagCount(tag) ==
    Len(SelectSeq(Flatten([i \in 1..Len(output) |->
                              IF output[i].written THEN output[i].line ELSE <<>>]),
                  LAMBDA t : t = tag))

\* C16 (block-state correctness): once a document with exactly two
\* triple-backtick lines is rendered, one opening and one closing code element
\* were written, in_code_block was true for exactly the lines between the two
\* markers, and each of those lines was written HTML-escaped, without inline
\* conversion or link rewriting.
C16_BlockState ==
    (phase = "rendered" /\ Cardinality(FenceLines(data)) = 2) =>
        LET lo == CHOOSE i \in FenceLines(data) : \A j \in FenceLines(data) : i <= j
            hi == CHOOSE i \in FenceLines(data) : \A j \in FenceLines(data) : i >= j
        IN  /\ TagCount("<pre><code>") = 1
            /\ TagCount("</code></pre>") = 1
            /\ \A i \in (1..Len(data)) \ {lo, hi} : inside[i] <=> (lo < i /\ i < hi)
            /\ \A i \in (lo + 1)..(hi - 1) :
                  output[i] = [written |-> TRUE, line |-> escape(data[i])]

\* C22 (the registry does not depend on the output mode): once the root is
\* rendered with export_to_html=True, the links of every one of its lines,
\* those inside code and comment blocks included, are resolved and their
\* targets registered; and the walk of the same document with
\* export_to_html=False ends with the same registry.
C22_RegistryModeIndependent ==
    /\ phase = "rendered" => LinksProcessed(vault.root, budget)
    /\ phase = "compared" => registry = registry1

\* process_file_to_html is about to process a line
LinePending == phase = "render" /\ lineno < Len(data)

\* C26 (block toggles are line-granular and never nest): rendering a line
\* flips in_code_block exactly when the line holds a triple backtick, and
\* flips in_comment exactly when the line is outside a code block and holds
\* the comment marker; a marker line met while the state is on turns it off,
\* and a line without a marker leaves the state as it is.
C26_BlockToggles ==
    [][LinePending =>
         (/\ (in_code_block' # in_code_block) <=> Contains(data[lineno + 1], Fence)
          /\ (in_comment' # in_comment) <=>
                 (~in_code_block' /\ "%%" \in Range(data[lineno + 1])))]_vars

\* C27 (comment suppression): rendering a line while the comment state is
\* on, or a line that opens or closes a comment block, writes no text for the
\* line and resolves, copies and registers nothing.
C27_CommentSuppression ==
    [][(LinePending /\ (in_comment \/ in_comment')) =>
         (/\ Len(output') = Len(output) + 1
          /\ output'[Len(output')].line = <<>>
          /\ registry' = registry
          /\ copies' = copies
          /\ notes' = notes
          /\ reads' = reads
          /\ warnings' = warnings)]_vars

\* a document is rendered whose only link stands inside a comment block
C27_Witness ==
    /\ phase = "rendered"
    /\ Md("a") \notin Registered
    /\ \E i \in 2..Len(data) :
          /\ data[i] = <<"[[a]]">>
          /\ data[i - 1] = <<"%%">>
          /\ output[i] = [written |-> TRUE, line |-> <<>>]

\* how often the token stands in the line
Count(line, token) == Len(SelectSeq(line, LAMBDA t : t = token))

\* C28 (inline rewrites do not reprocess emitted tags): a line [x](http://u)
\* rendered as prose is written with exactly one anchor element: the bare-URL
\* rule that runs after the labeled-link rule leaves the URL inside the
\* anchor alone.
C28_NoReprocessing ==
    phase = "rendered" =>
        \A i \in 1..Len(data) :
            (data[i] = <<"[", "x", "](", "http://u", ")">> /\ output[i].line # <<>>) =>
                /\ Count(output[i].line, "<a href='") = 1
                /\ Count(output[i].line, "</a>") = 1
====
